---- MODULE Spec2Model ----
(***************************************************************************)
(* Model of the stock reconciliation engine of oclz (sync/client.py):      *)
(* SyncClient.Sync and the sqlite tables it maintains, run against the     *)
(* marketplace adapters' in-memory product lists.                          *)
(***************************************************************************)
EXTENDS Integers, Sequences, FiniteSets, TLC

\* ------------------------------------------------------------------ bounds
MaxStock == 1       \* largest stock a customer-side change sets on a listing
MaxBatch == 3       \* number of Sync() runs explored
MaxEvents == 2      \* marketplace-side changes, unsuccessful uploads, kills and read-only runs explored
InitialStock == 1   \* stock of the listings of the default marketplace before the first batch

\* --------------------------------------------------------------- constants
ERROR_SUCCESS == 0

Models == {"X", "Y"}

\* What a product of a listing has as its model: a SKU, or nothing (an empty
\* string), which Python takes as false.
Skus == Models \cup {""}

\* The SKUs customers buy between batches; the others keep their stock.
Traded == {"X"}

\* SyncClient._external_systems: the enabled systems, in constructor order.
external_systems == <<"OPENCART", "LAZADA">>

Systems == {external_systems[i] : i \in 1..Len(external_systems)}

\* Adapters whose GetProduct raises MultipleResultsError on a duplicate SKU
\* (the others log and return the first match).
MultipleRaises == {"LAZADA", "WOOCOMMERCE", "TIKTOK"}

VARIABLES
    default_client, \* SyncClient._default_client: Common.DefaultSystem of the configuration
    remote,         \* remote[a][m]: stocks of the listings of SKU m at marketplace a
    products,       \* products[a][m]: adapter a's in-memory snapshot (_products)
    inventory,      \* table inventory: model -> row
    cache,          \* table inventory_system_cache: <<system, model>> -> row
    cache_delta,    \* table inventory_system_cache_delta (rows in insertion order)
    sync_logs,      \* table sync_logs (rows in insertion order)
    sync_batch,     \* number of rows of table sync_batch
    sync_batch_id,  \* SyncClient.sync_batch_id
    read_only,      \* argument of the running Sync()
    pc,             \* position of Sync(): "idle", "models", "update"
    todo,           \* models the outer loop of Sync() has not visited yet
    model,          \* model of the current iteration of the outer loop
    item,           \* the InventoryItem computed for model
    sysidx,         \* index in external_systems of the next system to update
    changes,        \* marketplace-side changes made so far
    faults,         \* unsuccessful uploads, kills and read-only runs so far
    obs,            \* history: what the aggregation of this batch saw, per model
    wrote,          \* history: result of _UpdateExternalSystemItem, per pair, this batch
    quiet,          \* history: models with no marketplace-side change since the last batch ended
    last,           \* history: read_only, wrote and obs of the previous batch
    calls,          \* history: the UpdateProductStocks calls made, in order
    oauth2,         \* table oauth2 (rows in insertion order)
    conns,          \* the sqlite connections of the running command that are open
    raised,         \* history: the error the last command ended with, and where
    tokens          \* history: the tokens last saved per system, the last GetOauth2Tokens

vars == <<default_client, remote, products, inventory, cache, cache_delta, sync_logs,
          sync_batch, sync_batch_id, read_only, pc, todo, model, item, sysidx,
          changes, faults, obs, wrote, quiet, last, calls, oauth2, conns, raised,
          tokens>>

\* What the engine of one command does not touch: the configuration and the
\* token table with its history.
config == <<default_client, oauth2, tokens>>

store == <<inventory, cache, cache_delta, sync_logs>>

\* ----------------------------------------------------------------- helpers
Max(a, b) == IF a >= b THEN a ELSE b

Pairs == Systems \X Models

NoItem == [stocks |-> 0, last_sync_batch_id |-> -1]

\* ------------------------------------------------------------------- oauth2

\* Systems whose access tokens are kept in table oauth2.
Oauth2Systems == {"LAZADA", "TIKTOK"}

\* The token values the marketplaces issue.
TokenIds == {1, 2}

\* Oauth2Service.SaveOauth2Tokens: UPDATE the rows of the system, INSERT a row
\* when the UPDATE matched none.
SaveOauth2Tokens(rows, system, access_token, refresh_token, expires_on) ==
    LET row == [system |-> system, access_token |-> access_token,
                refresh_token |-> refresh_token, expires_on |-> expires_on]
    IN IF \E i \in DOMAIN rows : rows[i].system = system
       THEN [i \in DOMAIN rows |-> IF rows[i].system = system THEN row ELSE rows[i]]
       ELSE Append(rows, row)

\* Oauth2Service.GetOauth2Tokens: the first row of the system. When there is
\* none the code evaluates `raise NotFoundError(...)`, a name that oauth2.py
\* does not import: the call ends with NameError.
GetOauth2Tokens(rows, system) ==
    LET match == {i \in DOMAIN rows : rows[i].system = system}
    IN IF match = {}
       THEN [err |-> "NameError", system |-> system, access_token |-> 0,
             refresh_token |-> 0, expires_on |-> 0]
       ELSE LET i == CHOOSE i \in match : \A j \in match : i <= j
            IN [err |-> "", system |-> system, access_token |-> rows[i].access_token,
                refresh_token |-> rows[i].refresh_token, expires_on |-> rows[i].expires_on]

\* Oauth2Service.Close / SyncClient.Close, called by __exit__ of the with
\* statements: the connection is closed when it is open.
Oauth2Service_Close(c) == c \ {"oauth2"}

\* Variant: Close() leaves the connection as it is.
SyncClient_Close_Leak(c) == c

SyncClient_Close(c) == c \ {"store"}

\* Variant: the tokens are refreshed in read-only mode too.
RefreshesTokens_Always(ro) == TRUE

\* sync.UpdateLazadaOauth2Tokens returns before anything when read_only.
RefreshesTokens(ro) == ~ro

NoError == [err |-> "", at |-> "", read_only |-> FALSE]

NoTokens == [saved |-> [a \in Oauth2Systems |-> <<>>],
             got |-> [err |-> "", system |-> "", access_token |-> 0,
                      refresh_token |-> 0, expires_on |-> 0]]

\* ----------------------------------------------------------------- adapters

\* <Adapter>.GetProduct(model) on the in-memory snapshot.
GetProduct(a, m) ==
    LET results == products[a][m] IN
    IF Len(results) = 0 THEN [err |-> "NotFoundError", stocks |-> 0]
    ELSE IF Len(results) > 1 /\ a \in MultipleRaises
         THEN [err |-> "MultipleResultsError", stocks |-> 0]
    ELSE [err |-> "", stocks |-> results[1]]

\* Variant: the products without a model are not skipped.
CollectExternalProductModels_KeepFalsy(prods) ==
    {m \in Skus : \E a \in Systems : Len(prods[a][m]) > 0}

\* SyncClient._CollectExternalProductModels(): models listed by any system.
CollectExternalProductModels(prods) ==
    {m \in Skus : m # "" /\ \E a \in Systems : Len(prods[a][m]) > 0}

\* <Adapter>.Refresh(): the snapshot is what the marketplace lists now.
Refresh(a) == remote[a]

\* -------------------------------------------------------------------- store

\* Variant: the UPDATE matches on model alone, so that the rows of the model
\* are overwritten for every system.
UpsertInventorySystemCacheItem_AnySystem(c, a, m, stocks, batch) ==
    [k \in DOMAIN c \cup {<<a, m>>} |->
        IF k[2] = m
        THEN [stocks |-> stocks,
              last_sync_batch_id |-> batch,
              not_behaving |-> IF k \in DOMAIN c THEN c[k].not_behaving ELSE FALSE]
        ELSE c[k]]

\* Variant: the row is replaced as a whole, not_behaving back at its default.
UpsertInventorySystemCacheItem_Replace(c, a, m, stocks, batch) ==
    [k \in DOMAIN c \cup {<<a, m>>} |->
        IF k = <<a, m>>
        THEN [stocks |-> stocks, last_sync_batch_id |-> batch, not_behaving |-> FALSE]
        ELSE c[k]]

\* Variant: the UPDATE sets the stocks alone.
UpsertInventorySystemCacheItem_StocksOnly(c, a, m, stocks, batch) ==
    [k \in DOMAIN c \cup {<<a, m>>} |->
        IF k = <<a, m>>
        THEN [stocks |-> stocks,
              last_sync_batch_id |-> IF k \in DOMAIN c THEN c[k].last_sync_batch_id
                                     ELSE batch,
              not_behaving |-> IF k \in DOMAIN c THEN c[k].not_behaving ELSE FALSE]
        ELSE c[k]]

\* SyncClient._UpsertInventorySystemCacheItem: UPDATE stocks and batch id of
\* the row, INSERT it (not_behaving DEFAULT 0) when no row matched.
UpsertInventorySystemCacheItem(c, a, m, stocks, batch) ==
    [k \in DOMAIN c \cup {<<a, m>>} |->
        IF k = <<a, m>>
        THEN [stocks |-> stocks,
              last_sync_batch_id |-> batch,
              not_behaving |-> IF k \in DOMAIN c THEN c[k].not_behaving ELSE FALSE]
        ELSE c[k]]

\* Variant: the WHERE clause of the UPDATE matches no row.
MarkNotBehavingInventorySystemCacheItem_NoMatch(c, a, m, flag) == c

\* SyncClient._MarkNotBehavingInventorySystemCacheItem: UPDATE of the flag.
MarkNotBehavingInventorySystemCacheItem(c, a, m, flag) ==
    [k \in DOMAIN c |->
        IF k = <<a, m>> THEN [c[k] EXCEPT !.not_behaving = flag] ELSE c[k]]

\* SyncClient._DeleteInventoryItems.
DeleteInventoryItems(inv, models) ==
    [k \in DOMAIN inv \ models |-> inv[k]]

\* Variant: the system is not passed on as the filter, so that the models of
\* every system count as online.
ListDeletedSystemModels_AnySystem(inv, prods, system) ==
    DOMAIN inv \ {m \in Models : \E a \in DOMAIN prods : Len(prods[a][m]) > 0}

\* sync.ListDeletedSystemModels: the models of the inventory that the system
\* no longer lists.
ListDeletedSystemModels(inv, prods, system) ==
    DOMAIN inv \ {m \in Models : Len(prods[system][m]) > 0}

\* sync.DoCleanupProcedure: the adapters its SyncClient is made with.
CleanupClients == {"OPENCART"}

\* Variant: an empty list of online models is taken as it is.
ListDeletedSystemModelsError_EmptyIsFine(clients, prods, system) ==
    IF system \notin clients THEN "CommunicationError" ELSE ""

\* sync.ListDeletedSystemModels: the error it raises, "" when it returns.
ListDeletedSystemModelsError(clients, prods, system) ==
    IF system \notin clients THEN "CommunicationError"
    ELSE IF {m \in Models : Len(prods[system][m]) > 0} = {} THEN "CommunicationError"
    ELSE ""

\* sync.DoCleanupProcedure on the product list of OPENCART: the inventory it
\* leaves. When OPENCART lists nothing ListDeletedSystemModels raises
\* CommunicationError and nothing is deleted.
DoCleanupProcedure(inv, prods) ==
    DeleteInventoryItems(inv, ListDeletedSystemModels(inv, prods, "OPENCART"))

\* Variant: an existing row is left as it is.
UpsertInventoryItem_InsertOnly(inv, m, it) ==
    [k \in DOMAIN inv \cup {m} |-> IF k = m /\ m \notin DOMAIN inv THEN it ELSE inv[k]]

\* SyncClient._UpsertInventoryItem.
UpsertInventoryItem(inv, m, it) ==
    [k \in DOMAIN inv \cup {m} |-> IF k = m THEN it ELSE inv[k]]

\* ------------------------------------------------------------- aggregation

\* Variant: the difference is taken the other way round.
CalculateSystemStocksDelta_Swapped(a, m) ==
    LET p == GetProduct(a, m) IN
    IF p.err # "" \/ <<a, m>> \notin DOMAIN cache THEN <<0, 0>>
    ELSE LET cached_stocks == IF cache[<<a, m>>].not_behaving
                              THEN p.stocks
                              ELSE cache[<<a, m>>].stocks
         IN <<cached_stocks - p.stocks, p.stocks>>

\* Variant: not_behaving is not looked at.
CalculateSystemStocksDelta_IgnoreFlag(a, m) ==
    LET p == GetProduct(a, m) IN
    IF p.err # "" \/ <<a, m>> \notin DOMAIN cache THEN <<0, 0>>
    ELSE <<p.stocks - cache[<<a, m>>].stocks, p.stocks>>

\* Variant: a pair without a cache row counts as cached with stocks 0.
CalculateSystemStocksDelta_AbsentIsZero(a, m) ==
    LET p == GetProduct(a, m) IN
    IF p.err # "" THEN <<0, 0>>
    ELSE IF <<a, m>> \notin DOMAIN cache THEN <<p.stocks, p.stocks>>
    ELSE LET cached_stocks == IF cache[<<a, m>>].not_behaving
                              THEN p.stocks
                              ELSE cache[<<a, m>>].stocks
         IN <<p.stocks - cached_stocks, p.stocks>>

\* SyncClient._CalculateSystemStocksDelta: <<delta, current_stocks>>.
CalculateSystemStocksDelta(a, m) ==
    LET p == GetProduct(a, m) IN
    IF p.err # "" \/ <<a, m>> \notin DOMAIN cache THEN <<0, 0>>
    ELSE LET cached_stocks == IF cache[<<a, m>>].not_behaving
                              THEN p.stocks
                              ELSE cache[<<a, m>>].stocks
         IN <<p.stocks - cached_stocks, p.stocks>>

\* Variant: the current stocks are stored in the cached_stocks column too.
RecordSystemStocksDelta_CachedAsCurrent(a, m, stocks_delta, current_stocks) ==
    [model |-> m, system |-> a,
     cached_stocks |-> current_stocks,
     current_stocks |-> current_stocks,
     stocks_delta |-> stocks_delta,
     last_sync_batch_id |-> sync_batch_id]

\* SyncClient._RecordSystemStocksDelta: the row it inserts.
RecordSystemStocksDelta(a, m, stocks_delta, current_stocks) ==
    [model |-> m, system |-> a,
     cached_stocks |-> current_stocks - stocks_delta,
     current_stocks |-> current_stocks,
     stocks_delta |-> stocks_delta,
     last_sync_batch_id |-> sync_batch_id]

\* Variant: the deltas are recorded in a read-only run too.
RECURSIVE DeltaRows_AlsoReadOnly(_, _)
DeltaRows_AlsoReadOnly(m, i) ==
    IF i > Len(external_systems) THEN <<>>
    ELSE LET a == external_systems[i]
             d == CalculateSystemStocksDelta(a, m)
         IN (IF d[1] # 0
             THEN <<RecordSystemStocksDelta(a, m, d[1], d[2])>>
             ELSE <<>>) \o DeltaRows_AlsoReadOnly(m, i + 1)

\* Variant: a delta of 0 is recorded too.
RECURSIVE DeltaRows_AlsoZero(_, _)
DeltaRows_AlsoZero(m, i) ==
    IF i > Len(external_systems) THEN <<>>
    ELSE LET a == external_systems[i]
             d == CalculateSystemStocksDelta(a, m)
         IN (IF ~read_only
             THEN <<RecordSystemStocksDelta(a, m, d[1], d[2])>>
             ELSE <<>>) \o DeltaRows_AlsoZero(m, i + 1)

\* Inner loop of Sync() over systems i..n: the rows appended to
\* inventory_system_cache_delta, in order.
RECURSIVE DeltaRows(_, _)
DeltaRows(m, i) ==
    IF i > Len(external_systems) THEN <<>>
    ELSE LET a == external_systems[i]
             d == CalculateSystemStocksDelta(a, m)
         IN (IF d[1] # 0 /\ ~read_only
             THEN <<RecordSystemStocksDelta(a, m, d[1], d[2])>>
             ELSE <<>>) \o DeltaRows(m, i + 1)

\* Variant: only sales (negative deltas) are accumulated.
RECURSIVE StocksDelta_SalesOnly(_, _)
StocksDelta_SalesOnly(m, i) ==
    IF i > Len(external_systems) THEN 0
    ELSE LET d == CalculateSystemStocksDelta(external_systems[i], m)[1]
         IN (IF d < 0 THEN d ELSE 0) + StocksDelta_SalesOnly(m, i + 1)

\* Variant: one system that fails or has no cache row voids the whole sum.
RECURSIVE StocksDelta_AllOrNothing(_, _)
StocksDelta_AllOrNothing(m, i) ==
    IF \E a \in Systems : GetProduct(a, m).err # "" \/ <<a, m>> \notin DOMAIN cache
    THEN 0
    ELSE IF i > Len(external_systems) THEN 0
    ELSE CalculateSystemStocksDelta(external_systems[i], m)[1]
             + StocksDelta_AllOrNothing(m, i + 1)

\* Inner loop of Sync() over systems i..n: stocks_delta accumulated.
RECURSIVE StocksDelta(_, _)
StocksDelta(m, i) ==
    IF i > Len(external_systems) THEN 0
    ELSE CalculateSystemStocksDelta(external_systems[i], m)[1] + StocksDelta(m, i + 1)

\* Variant: no clamp.
NewStocks_NoClamp(stocks, stocks_delta) == stocks + stocks_delta

\* Variant: the stocks are clamped before the delta is added.
NewStocks_ClampFirst(stocks, stocks_delta) ==
    (IF stocks <= 0 THEN 0 ELSE stocks) + stocks_delta

\* Sync(): item.stocks += stocks_delta; if item.stocks <= 0: item.stocks = 0.
NewStocks(stocks, stocks_delta) ==
    IF stocks + stocks_delta <= 0 THEN 0 ELSE stocks + stocks_delta


\* ------------------------------------------------- _UpdateExternalSystemItem

\* Results of <Adapter>.UpdateProductStocks as the engine distinguishes them:
\* a result with error_code 0, a result with another error_code, or one of
\* the errors raised.
WriteOutcomes == {"ok", "error_code", "CommunicationError", "PlatformNotBehavingError"}

\* LazadaClient is made with with_confirm left at True: UpdateProductStocks
\* reads the product back with GetProductDirect after the upload.
WithConfirm == {"LAZADA"}

\* The adapters whose UpdateProductStocks raises PlatformNotBehavingError:
\* none of the integrations at hand; the Opencart integration, after the
\* adapter contract.
RaisesNotBehaving == {"OPENCART"}

\* Variant: UpdateProductStocks sets the stocks on the product of the
\* snapshot itself.
SnapshotAfterUpdate_InPlace(prods, a, m, stocks) ==
    [prods EXCEPT ![a][m][1] = stocks]

\* The snapshot of adapter a after UpdateProductStocks(m, stocks): GetProduct
\* hands out a deepcopy and the stocks are set on that copy.
SnapshotAfterUpdate(prods, a, m, stocks) == prods

\* <Adapter>.UpdateProductStocks, given what the marketplace did with the
\* upload: "ok" when it took the stock, "error_code" when it answered and
\* kept the old stock, or the error the request ended with. With
\* confirmation, a stock read back that is not the stock uploaded raises
\* CommunicationError.
UpdateProductStocks(a, response) ==
    IF a \in WithConfirm /\ response = "error_code"
    THEN "CommunicationError"
    ELSE response

\* Variant: the cache is not updated after a successful upload.
CacheAfterWrite_NoForward(c, a, it_model, it, outcome) ==
    IF outcome = "PlatformNotBehavingError"
    THEN MarkNotBehavingInventorySystemCacheItem(c, a, it_model, TRUE)
    ELSE IF outcome = "CommunicationError" THEN c
    ELSE MarkNotBehavingInventorySystemCacheItem(c, a, it_model, FALSE)

\* Variant: the stocks of the item go to the cache whatever the outcome.
CacheAfterWrite_AlwaysForward(c, a, it_model, it, outcome) ==
    LET marked == MarkNotBehavingInventorySystemCacheItem(c, a, it_model,
                      outcome = "PlatformNotBehavingError")
    IN UpsertInventorySystemCacheItem(marked, a, it_model, it.stocks,
                                      it.last_sync_batch_id)

\* The try block around UpdateProductStocks and the cache update after it:
\* the cache once the call ended with the given outcome.
CacheAfterWrite(c, a, it_model, it, outcome) ==
    IF outcome = "PlatformNotBehavingError"
    THEN MarkNotBehavingInventorySystemCacheItem(c, a, it_model, TRUE)
    ELSE IF outcome = "CommunicationError" THEN c
    ELSE LET marked == MarkNotBehavingInventorySystemCacheItem(c, a, it_model, FALSE)
         IN IF outcome = "ok"
            THEN UpsertInventorySystemCacheItem(marked, a, it_model, it.stocks,
                                                it.last_sync_batch_id)
            ELSE marked

\* Variant: the row names the default system, not the one uploaded to.
SyncLogRow_DefaultSystem(a, it_model, it, previous_stocks, outcome) ==
    [sync_batch_id |-> sync_batch_id, system |-> default_client, model |-> it_model,
     previous_stocks |-> previous_stocks, computed_stocks |-> it.stocks,
     upload_error_code |-> IF outcome = "ok" THEN ERROR_SUCCESS ELSE ERROR_SUCCESS + 1]

\* The INSERT INTO sync_logs after a call that returned a result.
SyncLogRow(a, it_model, it, previous_stocks, outcome) ==
    [sync_batch_id |-> sync_batch_id, system |-> a, model |-> it_model,
     previous_stocks |-> previous_stocks, computed_stocks |-> it.stocks,
     upload_error_code |-> IF outcome = "ok" THEN ERROR_SUCCESS ELSE ERROR_SUCCESS + 1]

\* Variant: the row of the system and model is updated when there is one,
\* as the cache rows are.
InsertSyncLog_Upsert(logs, row) ==
    IF \E i \in DOMAIN logs : logs[i].system = row.system /\ logs[i].model = row.model
    THEN [i \in DOMAIN logs |->
             IF logs[i].system = row.system /\ logs[i].model = row.model
             THEN row ELSE logs[i]]
    ELSE Append(logs, row)

\* The INSERT INTO sync_logs: a new row, after the ones there are.
InsertSyncLog(logs, row) == Append(logs, row)

\* ------------------------------------------------------------------ actions

\* The listings before the first batch: the default marketplace lists every
\* SKU with InitialStock; elsewhere the traded SKUs have sold one unit. Each
\* marketplace has one product without a model as well.
InitialListing(a, m) ==
    IF a # default_client /\ m \in Traded THEN <<InitialStock - 1>> ELSE <<InitialStock>>

Init ==
    /\ default_client = "OPENCART"
    /\ remote = [a \in Systems |-> [m \in Skus |-> InitialListing(a, m)]]
    /\ products = [a \in Systems |-> [m \in Skus |-> <<>>]]
    /\ inventory = <<>>
    /\ cache = <<>>
    /\ cache_delta = <<>>
    /\ sync_logs = <<>>
    /\ sync_batch = 0
    /\ sync_batch_id = -1
    /\ read_only = FALSE
    /\ pc = "idle"
    /\ todo = {}
    /\ model = ""
    /\ item = NoItem
    /\ sysidx = 0
    /\ changes = 0
    /\ faults = 0
    /\ obs = <<>>
    /\ wrote = [p \in Pairs |-> "none"]
    /\ quiet = {}
    /\ last = [n |-> 0, read_only |-> FALSE, wrote |-> [p \in Pairs |-> "none"],
               obs |-> <<>>]
    /\ calls = <<>>
    /\ oauth2 = SaveOauth2Tokens(<<>>, "LAZADA", 1, 1, 1)
    /\ conns = {}
    /\ raised = NoError
    /\ tokens = [NoTokens EXCEPT !.saved["LAZADA"] = <<1, 1, 1>>]

\* The same with any enabled system configured as Common.DefaultSystem.
InitAnyDefault ==
    /\ default_client \in Systems
    /\ remote = [a \in Systems |-> [m \in Skus |-> InitialListing(a, m)]]
    /\ products = [a \in Systems |-> [m \in Skus |-> <<>>]]
    /\ inventory = <<>>
    /\ cache = <<>>
    /\ cache_delta = <<>>
    /\ sync_logs = <<>>
    /\ sync_batch = 0
    /\ sync_batch_id = -1
    /\ read_only = FALSE
    /\ pc = "idle"
    /\ todo = {}
    /\ model = ""
    /\ item = NoItem
    /\ sysidx = 0
    /\ changes = 0
    /\ faults = 0
    /\ obs = <<>>
    /\ wrote = [p \in Pairs |-> "none"]
    /\ quiet = {}
    /\ last = [n |-> 0, read_only |-> FALSE, wrote |-> [p \in Pairs |-> "none"],
               obs |-> <<>>]
    /\ calls = <<>>
    /\ oauth2 = SaveOauth2Tokens(<<>>, "LAZADA", 1, 1, 1)
    /\ conns = {}
    /\ raised = NoError
    /\ tokens = [NoTokens EXCEPT !.saved["LAZADA"] = <<1, 1, 1>>]

\* A customer buys at marketplace a, or the seller edits the stock there.
CustomerActivity(a, m, v) ==
    /\ UNCHANGED <<config, conns, raised>>
    /\ pc = "idle"
    /\ changes + faults < MaxEvents
    /\ m \in Traded
    /\ Len(remote[a][m]) = 1
    /\ v # remote[a][m][1]
    /\ remote' = [remote EXCEPT ![a][m] = <<v>>]
    /\ changes' = changes + 1
    /\ quiet' = quiet \ {m}
    /\ UNCHANGED <<products, store, sync_batch, sync_batch_id, read_only, pc,
                   todo, model, item, sysidx, faults, obs, wrote, last, calls>>

\* The seller removes the listing of m at marketplace a (n = 0), lists it
\* once (n = 1) or lists it a second time under the same SKU (n = 2).
SellerActivity(a, m, n) ==
    /\ UNCHANGED <<config, conns, raised>>
    /\ pc = "idle"
    /\ changes + faults < MaxEvents
    /\ m \in Traded
    /\ n # Len(remote[a][m])
    /\ LET v == IF Len(remote[a][m]) > 0 THEN remote[a][m][1] ELSE InitialStock
       IN remote' = [remote EXCEPT ![a][m] = [i \in 1..n |-> v]]
    /\ changes' = changes + 1
    /\ quiet' = quiet \ {m}
    /\ UNCHANGED <<products, store, sync_batch, sync_batch_id, read_only, pc,
                   todo, model, item, sysidx, faults, obs, wrote, last, calls>>

\* Variant: the id of the newest row is taken, no row being inserted after
\* the first.
InitSyncBatch_Reuse(n) == IF n = 0 THEN 1 ELSE n

\* SyncClient._InitSyncBatch on a sync_batch table of n rows (none is ever
\* deleted): the INTEGER PRIMARY KEY of the row inserted, one more than the
\* largest there is.
InitSyncBatch(n) == n + 1

\* Where main.CommandSync can fail before Sync() is called: the Refresh of
\* an adapter, or the request of UpdateLazadaOauth2Tokens.
StartFailures == {"none", "UpdateOauth2Tokens"} \cup Systems

\* main.CommandSync up to the first iteration of Sync(): DoCleanupProcedure
\* makes an OpencartClient (which loads its product list) and prunes the
\* inventory; then DoSyncProcedure opens the Oauth2Service, reads the tokens
\* of Lazada, refreshes and saves them, the adapters load their product
\* lists, a SyncClient is made, _InitSyncBatch inserts the batch row and
\* _CollectExternalProductModels yields the models to visit. An error on the
\* way is caught nowhere: the with statements close what is open and the
\* command ends.
StartSync(ro, failure) ==
    /\ UNCHANGED default_client
    /\ pc = "idle"
    /\ sync_batch < MaxBatch
    /\ (ro \/ failure # "none") => changes + faults < MaxEvents
    /\ faults' = IF ro \/ failure # "none" THEN faults + 1 ELSE faults
    /\ LET loaded == [a \in Systems |-> Refresh(a)]
           \* the OpencartClient could not load its list, or
           \* ListDeletedSystemModels raised
           cleanup_err == IF failure = "OPENCART" THEN "CommunicationError"
                          ELSE ListDeletedSystemModelsError(CleanupClients, loaded,
                                                            "OPENCART")
           got == GetOauth2Tokens(oauth2, "LAZADA")
           t == CHOOSE t \in TokenIds : t # got.access_token
           saved == SaveOauth2Tokens(oauth2, "LAZADA", t, t, t)
           \* the command got past the point named
           cleaned == cleanup_err = ""
           read == cleaned /\ got.err = ""
           refreshed == read /\ failure # "UpdateOauth2Tokens" /\ RefreshesTokens(ro)
           started == read /\ failure = "none"
           \* DoCleanupProcedure opened the Store and left its with block
           after_cleanup == SyncClient_Close(IF cleaned THEN {"store"} ELSE {})
           \* DoSyncProcedure entered the with block of the Oauth2Service
           entered == after_cleanup \cup (IF cleaned THEN {"oauth2"} ELSE {})
       IN /\ cleanup_err # "" => failure \in {"none", "OPENCART"}
          /\ failure = "UpdateOauth2Tokens" => RefreshesTokens(ro) /\ got.err = ""
          /\ failure = "LAZADA" => got.err = ""
          /\ inventory' = IF cleaned THEN DoCleanupProcedure(inventory, loaded)
                           ELSE inventory
          /\ oauth2' = IF refreshed THEN saved ELSE oauth2
          /\ tokens' = [saved |-> IF refreshed
                                  THEN [tokens.saved EXCEPT !["LAZADA"] = <<t, t, t>>]
                                  ELSE tokens.saved,
                        got |-> IF cleaned THEN got ELSE tokens.got]
          /\ IF started
             THEN /\ products' = loaded
                  /\ sync_batch' = sync_batch + 1
                  /\ sync_batch_id' = InitSyncBatch(sync_batch)
                  /\ read_only' = ro
                  /\ todo' = CollectExternalProductModels(products')
                  /\ pc' = "models"
                  /\ conns' = entered \cup {"store"}
                  /\ raised' = NoError
             ELSE /\ conns' = Oauth2Service_Close(entered)
                  /\ raised' = [err |-> IF ~read /\ cleaned THEN got.err
                                        ELSE "CommunicationError",
                                at |-> IF ~read /\ cleaned THEN "GetOauth2Tokens"
                                       ELSE IF failure = "none"
                                       THEN "ListDeletedSystemModels"
                                       ELSE failure,
                                read_only |-> ro]
                  /\ UNCHANGED <<products, sync_batch, sync_batch_id, read_only, todo,
                                 pc>>
          \* the histories of the batch before end where the cleanup begins
          /\ IF cleaned
             THEN /\ obs' = <<>>
                  /\ wrote' = [p \in Pairs |-> "none"]
                  /\ last' = [n |-> sync_batch, read_only |-> read_only,
                              wrote |-> wrote, obs |-> obs]
             ELSE UNCHANGED <<obs, wrote, last>>
    /\ UNCHANGED <<remote, cache, cache_delta, sync_logs, model, item, sysidx,
                   changes, quiet, calls>>

\* What the aggregation of model m sees, kept for the properties.
Observation(m) ==
    [prev |-> IF m \in DOMAIN inventory THEN inventory[m].stocks ELSE -1,
     delta |-> [a \in Systems |-> CalculateSystemStocksDelta(a, m)[1]],
     current |-> [a \in Systems |->
                    IF GetProduct(a, m).err = "" THEN GetProduct(a, m).stocks ELSE -1],
     cached |-> [a \in Systems |->
                    IF <<a, m>> \in DOMAIN cache THEN cache[<<a, m>>].stocks ELSE -1],
     not_behaving |-> {a \in Systems : <<a, m>> \in DOMAIN cache
                                         /\ cache[<<a, m>>].not_behaving},
     rows |-> Len(DeltaRows(m, 1)),
     quiet |-> m \in quiet]

\* Sync() returns or raises: the process ends.
Return ==
    /\ pc' = "idle"
    /\ model' = ""
    /\ item' = NoItem
    /\ sysidx' = 0
    /\ quiet' = Models
    /\ conns' = Oauth2Service_Close(SyncClient_Close(conns))

\* Variant: read_only is not looked at.
StopsBeforeWrites_Never(ro) == FALSE

\* Sync(): `if read_only: ... continue` ahead of _UpsertInventoryItem.
StopsBeforeWrites(ro) == ro

\* Variant: the except clause is missing.
DefaultNotFoundCaught_Never(err) == FALSE

\* Sync(): `except errors.NotFoundError` around the GetProduct of the default
\* client: logged, and `continue`.
DefaultNotFoundCaught(err) == err = "NotFoundError"

\* One iteration of the outer loop of Sync(), up to the loop over the
\* systems to update: the deltas are calculated and recorded, the item is
\* loaded (from the default client when the inventory has no row), its
\* stocks are recomputed and the row is stored.
Aggregate(m) ==
    /\ UNCHANGED config
    /\ pc = "models"
    /\ m \in todo
    /\ LET stocks_delta == StocksDelta(m, 1)
           p == GetProduct(default_client, m)
           found == m \in DOMAIN inventory
           stocks == IF found THEN inventory[m].stocks ELSE p.stocks
           it == [stocks |-> NewStocks(stocks, stocks_delta),
                  last_sync_batch_id |-> sync_batch_id]
       IN /\ cache_delta' = cache_delta \o DeltaRows(m, 1)
          /\ obs' = [k \in DOMAIN obs \cup {m} |->
                        IF k = m THEN Observation(m) ELSE obs[k]]
          /\ todo' = todo \ {m}
          /\ IF ~found /\ DefaultNotFoundCaught(p.err)
             THEN \* logged, continue
                  UNCHANGED <<inventory, pc, model, item, sysidx, quiet, conns, raised>>
             ELSE IF ~found /\ p.err # ""
             THEN \* MultipleResultsError is not caught: Sync() raises
                  /\ Return
                  /\ raised' = [err |-> p.err, at |-> default_client,
                                read_only |-> read_only]
                  /\ UNCHANGED inventory
             ELSE IF StopsBeforeWrites(read_only)
             THEN UNCHANGED <<inventory, pc, model, item, sysidx, quiet, conns, raised>>
             ELSE /\ inventory' = UpsertInventoryItem(inventory, m, it)
                  /\ pc' = "update"
                  /\ model' = m
                  /\ item' = it
                  /\ sysidx' = 1
                  /\ UNCHANGED <<quiet, conns, raised>>
    /\ UNCHANGED <<remote, products, cache, sync_logs, sync_batch, sync_batch_id,
                   read_only, changes, faults, wrote, last, calls>>

\* Variant: the except clause for CommunicationError is missing.
Caught_NoCommunication(err) == err \in {"NotFoundError", "MultipleResultsError"}

\* The except clauses of the loop over the systems in Sync().
Caught(err) == err \in {"CommunicationError", "NotFoundError", "MultipleResultsError"}

\* Variant: the loop does not move on from the current system.
NextSystem_Stay == UNCHANGED <<pc, model, item, sysidx, quiet, conns, raised>>

\* The loop over the systems goes on with the next system, or ends.
NextSystem ==
    IF sysidx = Len(external_systems)
    THEN /\ pc' = "models"
         /\ model' = ""
         /\ item' = NoItem
         /\ sysidx' = 0
         /\ UNCHANGED <<quiet, conns, raised>>
    ELSE /\ sysidx' = sysidx + 1
         /\ UNCHANGED <<pc, model, item, quiet, conns, raised>>

\* Variant: the stocks are uploaded whether they differ or not.
NoNeedToUpdate_Never(it, system_item) == FALSE

\* _UpdateExternalSystemItem: `if item.stocks == system_item.stocks: return`.
NoNeedToUpdate(it, system_item) == it.stocks = system_item.stocks

\* One iteration of the loop over the systems: _UpdateExternalSystemItem for
\* the current system and item, UpdateProductStocks ending with outcome, and
\* the except clauses of Sync().
UpdateExternal(response) ==
    /\ UNCHANGED config
    /\ pc = "update"
    /\ LET a == external_systems[sysidx]
           system_item == GetProduct(a, model)
           fresh == UpsertInventorySystemCacheItem(cache, a, model,
                        system_item.stocks, sync_batch_id)
           outcome == UpdateProductStocks(a, response)
       IN IF system_item.err # ""
          THEN \* NotFoundError / MultipleResultsError: caught by Sync()
               /\ response = "ok"
               /\ wrote' = [wrote EXCEPT ![<<a, model>>] = system_item.err]
               /\ IF Caught(system_item.err)
                  THEN NextSystem
                  ELSE Return /\ raised' = [err |-> system_item.err, at |-> a,
                                            read_only |-> read_only]
               /\ UNCHANGED <<remote, products, cache, sync_logs, faults, calls>>
          ELSE IF NoNeedToUpdate(item, system_item)
          THEN \* no need to update
               /\ response = "ok"
               /\ cache' = fresh
               /\ wrote' = [wrote EXCEPT ![<<a, model>>] = "same"]
               /\ NextSystem
               /\ UNCHANGED <<remote, products, sync_logs, faults, calls>>
          ELSE /\ response = "PlatformNotBehavingError" => a \in RaisesNotBehaving
               \* a request that fails and a confirmation that fails end alike
               /\ response = "CommunicationError" => a \notin WithConfirm
               /\ outcome # "ok" => changes + faults < MaxEvents
               /\ faults' = IF outcome = "ok" THEN faults ELSE faults + 1
               /\ products' = SnapshotAfterUpdate(products, a, model, item.stocks)
               /\ cache' = CacheAfterWrite(fresh, a, model, item, outcome)
               /\ wrote' = [wrote EXCEPT ![<<a, model>>] = outcome]
               /\ calls' = Append(calls, [sync_batch_id |-> sync_batch_id, system |-> a,
                                          model |-> model, stocks |-> item.stocks,
                                          response |-> response,
                                          outcome |-> outcome])
               /\ remote' = IF outcome = "ok"
                            THEN [remote EXCEPT ![a][model][1] = item.stocks]
                            ELSE remote
               /\ sync_logs' = IF outcome \in {"ok", "error_code"}
                               THEN InsertSyncLog(sync_logs,
                                      SyncLogRow(a, model, item, system_item.stocks, outcome))
                               ELSE sync_logs
               /\ IF outcome \in {"ok", "error_code"} \/ Caught(outcome)
                  THEN NextSystem
                  ELSE \* no except clause of Sync() matches
                       Return /\ raised' = [err |-> outcome, at |-> a,
                                            read_only |-> read_only]
    /\ UNCHANGED <<inventory, cache_delta, sync_batch, sync_batch_id,
                   read_only, todo, changes, obs, last>>

\* The outer loop of Sync() is exhausted: Sync() returns.
EndSync ==
    /\ UNCHANGED <<config, raised>>
    /\ pc = "models"
    /\ todo = {}
    /\ Return
    /\ UNCHANGED <<remote, products, store, sync_batch, sync_batch_id, read_only,
                   todo, changes, faults, obs, wrote, last, calls>>

\* Points at which the process can be killed: between two iterations, or in
\* _UpdateExternalSystemItem after the cache row was refreshed, before or
\* after the marketplace applied the upload.
KillPoints == {"between", "refreshed", "uploaded"}

\* The user kills the process while Sync() runs and has work left.
Kill(point) ==
    /\ UNCHANGED config
    /\ raised' = [err |-> "killed", at |-> "", read_only |-> read_only]
    /\ pc # "idle"
    /\ pc = "models" => todo # {}
    /\ changes + faults < MaxEvents
    /\ faults' = faults + 1
    /\ Return
    /\ IF point = "between"
       THEN UNCHANGED <<remote, cache>>
       ELSE /\ pc = "update"
            /\ LET a == external_systems[sysidx]
                   system_item == GetProduct(a, model)
               IN /\ system_item.err = ""
                  /\ item.stocks # system_item.stocks
                  /\ cache' = UpsertInventorySystemCacheItem(cache, a, model,
                                   system_item.stocks, sync_batch_id)
                  /\ remote' = IF point = "uploaded"
                               THEN [remote EXCEPT ![a][model][1] = item.stocks]
                               ELSE remote
    /\ calls' = IF point = "uploaded"
                THEN Append(calls, [sync_batch_id |-> sync_batch_id,
                                    system |-> external_systems[sysidx],
                                    model |-> model, stocks |-> item.stocks,
                                    response |-> "ok", outcome |-> "killed"])
                ELSE calls
    /\ wrote' = IF pc = "update"
                THEN [wrote EXCEPT ![<<external_systems[sysidx], model>>] = "killed"]
                ELSE wrote
    /\ UNCHANGED <<products, inventory, cache_delta, sync_logs, sync_batch,
                   sync_batch_id, read_only, todo, changes, obs, last>>

Next ==
    \/ \E a \in Systems, m \in Models, v \in 0..MaxStock : CustomerActivity(a, m, v)
    \/ \E a \in Systems, m \in Models, n \in 0..2 : SellerActivity(a, m, n)
    \/ \E point \in KillPoints : Kill(point)
    \/ \E ro \in BOOLEAN, failure \in StartFailures : StartSync(ro, failure)
    \/ \E m \in Skus : Aggregate(m)
    \/ \E response \in WriteOutcomes : UpdateExternal(response)
    \/ EndSync

Spec == Init /\ [][Next]_vars

\* Sync() is a loop over finite collections in a process of its own: a
\* batch that was started goes on until it returns, raises or is killed.
SyncStep ==
    \/ \E m \in Skus : Aggregate(m)
    \/ \E response \in WriteOutcomes : UpdateExternal(response)
    \/ EndSync

LiveSpec == Spec /\ WF_vars(SyncStep)

SpecAnyDefault == InitAnyDefault /\ [][Next]_vars

\* The configuration with Common.DefaultSystem = LAZADA: the first batch
\* builds the inventory from the listings of Lazada and uploads to Opencart.
InitLazadaDefault == InitAnyDefault /\ default_client = "LAZADA"

SpecLazadaDefault == InitLazadaDefault /\ [][Next]_vars

\* A seller with one SKU, listed at every system, and any enabled system as
\* Common.DefaultSystem: a listing taken down leaves that system with none.
InitSingleSku ==
    /\ default_client \in Systems
    /\ remote = [a \in Systems |->
                    [m \in Skus |-> IF m \in Models \ Traded THEN <<>>
                                  ELSE InitialListing(a, m)]]
    /\ products = [a \in Systems |-> [m \in Skus |-> <<>>]]
    /\ inventory = <<>>
    /\ cache = <<>>
    /\ cache_delta = <<>>
    /\ sync_logs = <<>>
    /\ sync_batch = 0
    /\ sync_batch_id = -1
    /\ read_only = FALSE
    /\ pc = "idle"
    /\ todo = {}
    /\ model = ""
    /\ item = NoItem
    /\ sysidx = 0
    /\ changes = 0
    /\ faults = 0
    /\ obs = <<>>
    /\ wrote = [p \in Pairs |-> "none"]
    /\ quiet = {}
    /\ last = [n |-> 0, read_only |-> FALSE, wrote |-> [p \in Pairs |-> "none"],
               obs |-> <<>>]
    /\ calls = <<>>
    /\ oauth2 = SaveOauth2Tokens(<<>>, "LAZADA", 1, 1, 1)
    /\ conns = {}
    /\ raised = NoError
    /\ tokens = [NoTokens EXCEPT !.saved["LAZADA"] = <<1, 1, 1>>]

SpecSingleSku == InitSingleSku /\ [][Next]_vars

\* The store and the listings after a first batch with Common.DefaultSystem =
\* LAZADA in which the traded SKUs were sold out everywhere: the state
\* SpecLazadaDefault is in once a customer has bought at Lazada and Sync()
\* has returned, with the account of the changes explored started anew.
InitSecondRun ==
    /\ default_client = "LAZADA"
    /\ remote = [a \in Systems |->
                    [m \in Skus |-> IF m \in Traded THEN <<InitialStock - 1>>
                                    ELSE <<InitialStock>>]]
    /\ products = remote
    /\ inventory = [m \in Models |->
                       [stocks |-> remote[default_client][m][1],
                        last_sync_batch_id |-> 1]]
    /\ cache = [k \in Pairs |->
                   [stocks |-> remote[k[1]][k[2]][1], last_sync_batch_id |-> 1,
                    not_behaving |-> FALSE]]
    /\ cache_delta = <<>>
    /\ sync_logs = <<>>
    /\ sync_batch = 1
    /\ sync_batch_id = 1
    /\ read_only = FALSE
    /\ pc = "idle"
    /\ todo = {}
    /\ model = ""
    /\ item = NoItem
    /\ sysidx = 0
    /\ changes = 0
    /\ faults = 0
    /\ obs = [m \in Models |->
                 [prev |-> -1,
                  delta |-> [a \in Systems |-> 0],
                  current |-> [a \in Systems |-> remote[a][m][1]],
                  cached |-> [a \in Systems |-> -1],
                  not_behaving |-> {},
                  rows |-> 0,
                  quiet |-> FALSE]]
    /\ wrote = [p \in Pairs |-> "same"]
    /\ quiet = Models
    /\ last = [n |-> 0, read_only |-> FALSE, wrote |-> [p \in Pairs |-> "none"],
               obs |-> <<>>]
    /\ calls = <<>>
    /\ oauth2 = SaveOauth2Tokens(<<>>, "LAZADA", 2, 2, 2)
    /\ conns = {}
    /\ raised = NoError
    /\ tokens = [NoTokens EXCEPT !.saved["LAZADA"] = <<2, 2, 2>>,
                                 !.got = GetOauth2Tokens(
                                             SaveOauth2Tokens(<<>>, "LAZADA", 1, 1, 1),
                                             "LAZADA")]

SpecSecondRun == InitSecondRun /\ [][Next]_vars

\* ---------------------------------------------- the Oauth2Service by itself

\* A new database: _Setup has created the oauth2 table, which has no row.
Oauth2Init ==
    /\ default_client = "OPENCART"
    /\ remote = [a \in Systems |-> [m \in Skus |-> InitialListing(a, m)]]
    /\ products = [a \in Systems |-> [m \in Skus |-> <<>>]]
    /\ inventory = <<>>
    /\ cache = <<>>
    /\ cache_delta = <<>>
    /\ sync_logs = <<>>
    /\ sync_batch = 0
    /\ sync_batch_id = -1
    /\ read_only = FALSE
    /\ pc = "idle"
    /\ todo = {}
    /\ model = ""
    /\ item = NoItem
    /\ sysidx = 0
    /\ changes = 0
    /\ faults = 0
    /\ obs = <<>>
    /\ wrote = [p \in Pairs |-> "none"]
    /\ quiet = {}
    /\ last = [n |-> 0, read_only |-> FALSE, wrote |-> [p \in Pairs |-> "none"],
               obs |-> <<>>]
    /\ calls = <<>>
    /\ oauth2 = <<>>
    /\ conns = {"oauth2"}
    /\ raised = NoError
    /\ tokens = NoTokens

\* A caller saves tokens of a system: CreateLazadaOauth2Tokens,
\* UpdateLazadaOauth2Tokens and the same for Tiktok.
Oauth2Save(system, access_token, refresh_token, expires_on) ==
    /\ "oauth2" \in conns
    /\ oauth2' = SaveOauth2Tokens(oauth2, system, access_token, refresh_token,
                                  expires_on)
    /\ tokens' = [tokens EXCEPT !.saved[system] =
                       <<access_token, refresh_token, expires_on>>]
    /\ UNCHANGED <<default_client, remote, products, inventory, cache, cache_delta,
                   sync_logs, sync_batch, sync_batch_id, read_only, pc, todo, model,
                   item, sysidx, changes, faults, obs, wrote, quiet, last, calls,
                   conns, raised>>

\* A caller asks for the tokens of a system.
Oauth2Get(system) ==
    /\ "oauth2" \in conns
    /\ tokens' = [tokens EXCEPT !.got = GetOauth2Tokens(oauth2, system)]
    /\ raised' = [err |-> tokens'.got.err, at |-> "GetOauth2Tokens",
                  read_only |-> FALSE]
    /\ UNCHANGED <<default_client, remote, products, inventory, cache, cache_delta,
                   sync_logs, sync_batch, sync_batch_id, read_only, pc, todo, model,
                   item, sysidx, changes, faults, obs, wrote, quiet, last, calls,
                   oauth2, conns>>

Oauth2Next ==
    \/ \E system \in Oauth2Systems, access_token \in TokenIds,
          refresh_token \in TokenIds, expires_on \in TokenIds :
          Oauth2Save(system, access_token, refresh_token, expires_on)
    \/ \E system \in Oauth2Systems : Oauth2Get(system)

Oauth2Spec == Oauth2Init /\ [][Oauth2Next]_vars

TypeOK ==
    /\ pc \in {"idle", "models", "update"}
    /\ DOMAIN inventory \subseteq Models
    /\ DOMAIN cache \subseteq Pairs
    /\ sync_batch \in 0..MaxBatch

\* ---------------------------------------------------------------- properties

\* The cached stocks the deltas are measured from: the cache row's stocks, or
\* the current stocks when the row is absent or flagged not_behaving.
Cached(o, a) ==
    IF o.cached[a] < 0 \/ a \in o.not_behaving THEN o.current[a] ELSE o.cached[a]

\* delta(a, m) of an observation: 0 when the system does not report the model.
Delta(o, a) == IF o.current[a] < 0 THEN 0 ELSE o.current[a] - Cached(o, a)

RECURSIVE DeltaSum(_, _)
DeltaSum(o, i) ==
    IF i > Len(external_systems) THEN 0
    ELSE Delta(o, external_systems[i]) + DeltaSum(o, i + 1)

\* Rows of inventory_system_cache_delta of this batch for system a, model m.
DeltaRowsOf(a, m) ==
    {i \in 1..Len(cache_delta) : /\ cache_delta[i].system = a
                                 /\ cache_delta[i].model = m
                                 /\ cache_delta[i].last_sync_batch_id = sync_batch_id}

\* No marketplace-side change to m since the writes of this batch.
Undisturbed(m) == pc # "idle" \/ m \in quiet

\* Results of _UpdateExternalSystemItem that went past the cache refresh.
Refreshed == {"same", "ok", "error_code", "CommunicationError", "PlatformNotBehavingError"}

\* In this batch system a reported a sale of m (current below cached) and
\* every other system reported current = cached; the inventory had a row.
SingleSale(m, a) ==
    /\ m \in DOMAIN obs
    /\ obs[m].prev >= 0
    /\ obs[m].current[a] >= 0
    /\ obs[m].current[a] < Cached(obs[m], a)
    /\ \A b \in Systems \ {a} :
          obs[m].current[b] >= 0 /\ obs[m].current[b] = Cached(obs[m], b)

SaleTarget(m, a) == Max(0, obs[m].prev - (Cached(obs[m], a) - obs[m].current[a]))

\* C1 (as amended): if in a batch that is not read-only exactly one system a
\* reports current = cached - s (s > 0) for m and every other system reports
\* current = cached, then once m is aggregated InventoryItem(m).stocks =
\* max(0, prev - s), and every system whose upload returned error_code 0 or
\* needed no upload lists m with stocks max(0, prev - s).
C1_SingleSale ==
    \A m \in Models, a \in Systems :
        SingleSale(m, a) /\ ~read_only =>
            /\ m \in DOMAIN inventory
            /\ inventory[m].stocks = SaleTarget(m, a)
            /\ \A b \in Systems :
                  wrote[<<b, m>>] \in {"ok", "same"} /\ Undisturbed(m)
                      => Len(remote[b][m]) > 0 /\ remote[b][m][1] = SaleTarget(m, a)

\* C1 as stated: after any batch with a single sale of m, the inventory row
\* and every system listing m have stocks max(0, prev - s).
C1_Original ==
    \A m \in Models, a \in Systems :
        SingleSale(m, a) /\ pc = "idle" /\ m \in quiet =>
            /\ m \in DOMAIN inventory
            /\ inventory[m].stocks = SaleTarget(m, a)
            /\ \A b \in Systems :
                  Len(remote[b][m]) > 0 => remote[b][m][1] = SaleTarget(m, a)

\* A batch with a single sale has ended, an upload was made and succeeded,
\* and every system lists the new stocks.
C1_Witness ==
    \E m \in Models, a \in Systems :
        /\ SingleSale(m, a)
        /\ ~read_only
        /\ pc = "idle"
        /\ m \in quiet
        /\ \E b \in Systems : wrote[<<b, m>>] = "ok"
        /\ \A b \in Systems : /\ wrote[<<b, m>>] \in {"ok", "same"}
                              /\ remote[b][m] = <<SaleTarget(m, a)>>

\* The batch before this one was not read-only and refreshed the cache row
\* of every system that now reports m, and no marketplace changed the stock
\* of m between the two batches.
NoOpSince(m) ==
    /\ m \in DOMAIN obs
    /\ obs[m].quiet
    /\ last.n >= 1
    /\ ~last.read_only
    /\ \A a \in Systems : obs[m].current[a] >= 0 => last.wrote[<<a, m>>] \in Refreshed

NoOpEffect(m) ==
    /\ \A a \in Systems : DeltaRowsOf(a, m) = {}
    /\ obs[m].prev >= 0 => m \in DOMAIN inventory /\ inventory[m].stocks = obs[m].prev

\* C2 (as amended): if no marketplace changed the stock of m between the end
\* of a batch and the start of the next, and the first batch was not
\* read-only and refreshed the cache row of every system listing m, then the
\* second batch leaves InventoryItem(m).stocks unchanged and appends no
\* CacheDelta row for m.
C2_NoOp == \A m \in Models : NoOpSince(m) => NoOpEffect(m)

\* C2 as stated: whatever the first batch was.
C2_Original ==
    \A m \in Models :
        m \in DOMAIN obs /\ obs[m].quiet /\ last.n >= 1 => NoOpEffect(m)

\* A second batch has ended that followed, with no change in between, a batch
\* that uploaded new stocks of m.
C2_Witness ==
    \E m \in Models :
        /\ NoOpSince(m)
        /\ ~read_only
        /\ pc = "idle"
        /\ \E a \in Systems : last.wrote[<<a, m>>] = "ok"
        /\ \A a \in Systems : wrote[<<a, m>>] = "same"

\* The aggregation of m in this batch took the clamp branch.
Clamped(m) ==
    /\ m \in DOMAIN obs
    /\ ~read_only
    /\ obs[m].prev >= 0
    /\ obs[m].prev + DeltaSum(obs[m], 1) <= 0

\* C3: every inventory row has stocks >= 0.
C3_NonNegative == \A m \in DOMAIN inventory : inventory[m].stocks >= 0

\* The deltas of a batch summed to less than minus the stocks, and the row
\* stored is 0.
C3_Witness ==
    \E m \in Models :
        /\ Clamped(m)
        /\ obs[m].prev + DeltaSum(obs[m], 1) < 0
        /\ inventory[m].stocks = 0

\* C4: UpdateProductStocks is never called with stocks < 0, and no stocks
\* stored in the inventory, the cache or the sync logs are negative.
C4_NoNegativeWrite ==
    /\ \A i \in DOMAIN calls : calls[i].stocks >= 0
    /\ pc = "update" => item.stocks >= 0
    /\ \A m \in DOMAIN inventory : inventory[m].stocks >= 0
    /\ \A k \in DOMAIN cache : cache[k].stocks >= 0
    /\ \A i \in DOMAIN sync_logs : sync_logs[i].computed_stocks >= 0

\* The clamp branch was taken for m and stocks 0 were uploaded to a system.
C4_Witness ==
    \E m \in Models, i \in DOMAIN calls :
        /\ Clamped(m)
        /\ calls[i].model = m
        /\ calls[i].sync_batch_id = sync_batch_id
        /\ calls[i].stocks = 0

\* C5: for each m aggregated in a batch that is not read-only, with an
\* inventory row of stocks prev, the stored stocks are max(0, prev + sum of
\* delta(a, m)), and cache_delta got exactly one row (with that delta) for
\* each system whose delta is not 0, none for the others.
C5_Aggregation ==
    \A m \in DOMAIN obs :
        ~read_only /\ obs[m].prev >= 0 =>
            /\ m \in DOMAIN inventory
            /\ inventory[m].stocks = Max(0, obs[m].prev + DeltaSum(obs[m], 1))
            /\ \A a \in Systems :
                  /\ Cardinality(DeltaRowsOf(a, m)) = IF Delta(obs[m], a) # 0 THEN 1 ELSE 0
                  /\ \A i \in DeltaRowsOf(a, m) :
                        /\ cache_delta[i].stocks_delta = Delta(obs[m], a)
                        /\ cache_delta[i].current_stocks = obs[m].current[a]

\* A positive and a negative delta of two systems were summed.
C5_Witness ==
    \E m \in DOMAIN obs, a \in Systems, b \in Systems :
        /\ ~read_only
        /\ obs[m].prev >= 0
        /\ Delta(obs[m], a) > 0
        /\ Delta(obs[m], b) < 0
        /\ inventory[m].stocks = obs[m].prev + Delta(obs[m], a) + Delta(obs[m], b)

\* C6: for every pair whose upload returned error_code 0 in this batch, the
\* cache row holds the stocks of the inventory row.
C6_CacheForward ==
    \A k \in Pairs :
        wrote[k] = "ok" =>
            /\ k \in DOMAIN cache
            /\ k[2] \in DOMAIN inventory
            /\ cache[k].stocks = inventory[k[2]].stocks

\* A batch has ended in which an upload succeeded.
C6_Witness ==
    /\ pc = "idle"
    /\ \E k \in Pairs : wrote[k] = "ok" /\ cache[k].stocks # obs[k[2]].current[k[1]]

\* C7: a system whose cache row for m is flagged not_behaving when m is
\* aggregated contributes delta 0, whatever it reports, and gets no
\* CacheDelta row.
C7_ShortCircuit ==
    \A m \in DOMAIN obs :
        \A a \in obs[m].not_behaving :
            /\ obs[m].delta[a] = 0
            /\ DeltaRowsOf(a, m) = {}

\* A flagged system reported stocks other than the cached ones.
C7_Witness ==
    \E m \in DOMAIN obs :
        \E a \in obs[m].not_behaving :
            obs[m].current[a] >= 0 /\ obs[m].current[a] # obs[m].cached[a]

FlagSet(c, k) == k \in DOMAIN c /\ c[k].not_behaving

\* This step is a call of UpdateProductStocks for pair k ending with one of outs.
Called(k, outs) ==
    /\ Len(calls') = Len(calls) + 1
    /\ calls'[Len(calls')].system = k[1]
    /\ calls'[Len(calls')].model = k[2]
    /\ calls'[Len(calls')].outcome \in outs

LatchedUntil(outs) ==
    \A k \in Pairs :
        /\ FlagSet(cache, k) /\ ~FlagSet(cache', k) => Called(k, outs)
        /\ Called(k, outs) => ~FlagSet(cache', k)

\* C8 (as amended): once not_behaving is true for a pair it stays true until
\* a call of UpdateProductStocks for that pair returns a result, with
\* error_code 0 or not, and it is false after any call that returned.
C8_Latched == [][LatchedUntil({"ok", "error_code"})]_vars

\* C8 as stated: only a call that returned error_code 0 clears the flag.
C8_Original == [][LatchedUntil({"ok"})]_vars

\* A pair was flagged by a call and the flag was cleared by a later,
\* successful call.
C8_Witness ==
    \E i \in DOMAIN calls, j \in DOMAIN calls :
        /\ i < j
        /\ calls[i].system = calls[j].system
        /\ calls[i].model = calls[j].model
        /\ calls[i].outcome = "PlatformNotBehavingError"
        /\ calls[j].outcome = "ok"
        /\ ~FlagSet(cache, <<calls[j].system, calls[j].model>>)

\* C9: when UpdateProductStocks raised PlatformNotBehavingError for a pair,
\* the cache row is flagged and holds the stocks seen at the system before
\* the call, not the stocks that were to be uploaded; in the next batch the
\* pair contributes delta 0.
C9_NotBehavingMarked ==
    \A k \in Pairs :
        /\ wrote[k] = "PlatformNotBehavingError" =>
              /\ FlagSet(cache, k)
              /\ cache[k].stocks = obs[k[2]].current[k[1]]
              /\ cache[k].stocks # inventory[k[2]].stocks
        /\ last.wrote[k] = "PlatformNotBehavingError" /\ k[2] \in DOMAIN obs =>
              obs[k[2]].delta[k[1]] = 0

\* The batch after a PlatformNotBehavingError has aggregated the model, and
\* the system reports other stocks than the cached ones.
C9_Witness ==
    \E k \in Pairs :
        /\ last.wrote[k] = "PlatformNotBehavingError"
        /\ k[2] \in DOMAIN obs
        /\ obs[k[2]].current[k[1]] # obs[k[2]].cached[k[1]]

\* C10 as stated: a batch in which UpdateProductStocks raised
\* PlatformNotBehavingError for a pair still visits every model and, for the
\* model of the pair, every system.
C10_Original ==
    \A k \in Pairs :
        pc = "idle" /\ wrote[k] = "PlatformNotBehavingError" =>
            /\ todo = {}
            /\ \A b \in Systems : wrote[<<b, k[2]>>] # "none"

\* Errors of _UpdateExternalSystemItem that Sync() catches.
Absorbed == {"NotFoundError", "MultipleResultsError", "CommunicationError"}

\* The loop over the systems has moved on from the current system.
LoopGoesOn ==
    /\ inventory' = inventory
    /\ todo' = todo
    /\ IF sysidx < Len(external_systems)
       THEN pc' = "update" /\ sysidx' = sysidx + 1 /\ model' = model /\ item' = item
       ELSE pc' = "models"

\* C11: when _UpdateExternalSystemItem for a pair ends with NotFoundError,
\* MultipleResultsError or CommunicationError, Sync() goes on with the next
\* system of the model (or the next model), the models still to visit and
\* the inventory rows, the one just stored included, are as before.
C11_Absorbed ==
    [][\A k \in Pairs :
          wrote[k] = "none" /\ wrote'[k] \in Absorbed
              => LoopGoesOn /\ k[2] \in DOMAIN inventory'
                            /\ inventory'[k[2]].stocks = item.stocks]_vars

\* A batch has ended in which the upload to the first system raised
\* CommunicationError, the next system was uploaded to, and the other model
\* was visited.
C11_Witness ==
    /\ pc = "idle"
    /\ todo = {}
    /\ \E m \in Models :
          /\ wrote[<<external_systems[1], m>>] = "CommunicationError"
          /\ wrote[<<external_systems[2], m>>] = "ok"
          /\ \A n \in Models \ {m} : n \in DOMAIN obs /\ wrote[<<external_systems[2], n>>] # "none"

\* Rows of sync_logs for the batch, system and model of a call.
SyncLogRowsOf(c) ==
    {j \in DOMAIN sync_logs : /\ sync_logs[j].sync_batch_id = c.sync_batch_id
                              /\ sync_logs[j].system = c.system
                              /\ sync_logs[j].model = c.model}

ObserveOnly ==
    read_only /\ pc # "idle" =>
        /\ inventory' = inventory
        /\ cache' = cache
        /\ sync_logs' = sync_logs
        /\ calls' = calls
        /\ remote' = remote

\* The batch before this one was read-only and observed m, and no
\* marketplace changed m since.
AfterReadOnly(m) ==
    /\ ~read_only
    /\ last.n >= 1
    /\ last.read_only
    /\ m \in DOMAIN obs
    /\ m \in DOMAIN last.obs
    /\ obs[m].quiet

\* C13: Sync(read_only=True) changes no inventory row, no cache row and no
\* sync_logs row and calls UpdateProductStocks on no adapter, and the batch
\* after it, when it is not read-only and the marketplaces did not change m
\* in between, observes for m the deltas the read-only batch observed.
C13_ObserveOnly ==
    /\ [][ObserveOnly]_vars
    /\ [](\A m \in Models : AfterReadOnly(m) => obs[m].delta = last.obs[m].delta)

\* A batch that is not read-only has observed a non-zero delta that the
\* read-only batch before it had observed too.
C13_Witness ==
    \E m \in Models, a \in Systems :
        /\ AfterReadOnly(m)
        /\ last.obs[m].delta[a] # 0
        /\ obs[m].delta[a] = last.obs[m].delta[a]

\* C14 (as amended): in a read-only run the deltas are computed but no row
\* is appended to inventory_system_cache_delta, whatever the deltas are.
C14_NoRowsReadOnly ==
    read_only => \A m \in DOMAIN obs : \A a \in Systems :
                     /\ obs[m].rows = 0
                     /\ DeltaRowsOf(a, m) = {}

\* C14 as stated: a read-only run appends one row for every pair whose
\* observed delta is not 0.
C14_Original ==
    read_only => \A m \in DOMAIN obs : \A a \in Systems :
                     obs[m].delta[a] # 0 => Cardinality(DeltaRowsOf(a, m)) = 1

\* A read-only run has observed a delta that is not 0.
C14_Witness ==
    /\ read_only
    /\ pc = "idle"
    /\ \E m \in DOMAIN obs : \E a \in Systems : obs[m].delta[a] # 0

\* C15 as stated: no step of a `sync --readonly` command, the cleanup at its
\* start included, changes or deletes an inventory row or writes a
\* marketplace stock.
C15_Original ==
    [][read_only' /\ pc' # "idle" => inventory' = inventory /\ remote' = remote]_vars

\* C16 as stated: when the batch before this one was killed in the loop over
\* the systems of m, after it had stored the new stocks of m, and no
\* marketplace changed m since, this batch observes (and applies) for m no
\* delta that the killed batch had applied.
C16_Original ==
    \A m \in DOMAIN obs :
        /\ ~read_only
        /\ obs[m].quiet
        /\ m \in DOMAIN last.obs
        /\ last.obs[m].prev >= 0
        /\ \E a \in Systems : last.wrote[<<a, m>>] = "killed"
        => \A a \in Systems : last.obs[m].delta[a] # 0 => obs[m].delta[a] = 0

\* What system a reports for m right now: its stocks, or -1 when GetProduct
\* would raise.
Reported(a, m) ==
    IF Len(remote[a][m]) = 0 \/ (Len(remote[a][m]) > 1 /\ a \in MultipleRaises)
    THEN -1
    ELSE remote[a][m][1]

\* Every system that reports m reports the stocks of the inventory row.
Converged(m) ==
    \A a \in Systems : Reported(a, m) >= 0 => Reported(a, m) = inventory[m].stocks

\* Nothing but successful steps of Sync() can happen from here on: the
\* marketplaces have stopped changing and the uploads succeed.
Quiesced == changes + faults = MaxEvents

\* A batch that is not read-only has just been started.
Started == pc = "models" /\ ~read_only /\ DOMAIN obs = {}

\* The batch before this one was not read-only, ran to its end with every
\* upload of m applied or not needed, and no marketplace changed m since.
AfterConverged(m) ==
    /\ m \in DOMAIN obs
    /\ obs[m].quiet
    /\ obs[m].prev >= 0
    /\ last.n >= 1
    /\ ~last.read_only
    /\ \A a \in Systems : obs[m].current[a] >= 0 => last.wrote[<<a, m>>] \in {"ok", "same"}

\* C17: once the marketplaces have stopped changing and the uploads succeed,
\* a batch that is not read-only ends with every marketplace that reports m
\* reporting the stocks of the inventory row of m; the batches after it
\* upload nothing for m, append no CacheDelta row for m and leave the
\* inventory row of m as it is.
C17_Reconverges ==
    /\ (Started /\ Quiesced)
          ~> (pc = "idle" /\ \A m \in DOMAIN inventory : Converged(m))
    /\ [](\A m \in Models :
            AfterConverged(m) =>
                /\ NoOpEffect(m)
                /\ \A i \in DOMAIN calls :
                      ~(calls[i].sync_batch_id = sync_batch_id /\ calls[i].model = m))

\* Two marketplaces reported different stocks of m, a batch uploaded the
\* stocks of the inventory row, and the batch after it has ended without
\* an upload.
C17_Witness ==
    \E m \in Models :
        /\ pc = "idle"
        /\ AfterConverged(m)
        /\ \E a \in Systems : last.wrote[<<a, m>>] = "ok"
        /\ \A a \in Systems : wrote[<<a, m>>] = "same"
        /\ Converged(m)
        /\ Quiesced

\* GetProduct(m) of system a raises MultipleResultsError in this batch.
Ambiguous(a, m) == GetProduct(a, m).err = "MultipleResultsError"

\* C18 as stated: when GetProduct(m) of a system B raises
\* MultipleResultsError, the aggregation of m takes delta 0 from B, folds the
\* deltas of the other systems into the inventory row and the batch goes on;
\* the turn of B in the loop over the systems uploads nothing, leaves the
\* cache as it is and the loop goes on.
C18_Original ==
    [][\A m \in Models, B \in Systems :
          Ambiguous(B, m) /\ pc # "idle" =>
              /\ m \notin DOMAIN obs /\ m \in DOMAIN obs' =>
                    /\ obs'[m].delta[B] = 0
                    /\ pc' # "idle"
                    /\ ~read_only /\ obs'[m].prev >= 0 =>
                          inventory'[m].stocks = Max(0, obs'[m].prev + DeltaSum(obs'[m], 1))
              /\ wrote[<<B, m>>] = "none" /\ wrote'[<<B, m>>] = "MultipleResultsError" =>
                    /\ cache' = cache
                    /\ calls' = calls
                    /\ remote' = remote
                    /\ LoopGoesOn]_vars

\* In the first batch every enabled system reports m with the same stocks.
SameEverywhere(m) ==
    /\ sync_batch = 1
    /\ m \in DOMAIN obs
    /\ \A a \in Systems : /\ obs[m].current[a] >= 0
                           /\ obs[m].current[a] = obs[m].current[default_client]

\* Nothing was recorded, logged or uploaded for m.
NoTraceOf(m) ==
    /\ \A i \in DOMAIN cache_delta : cache_delta[i].model # m
    /\ \A i \in DOMAIN sync_logs : sync_logs[i].model # m
    /\ \A i \in DOMAIN calls : calls[i].model # m

\* C19 (as amended): starting from an empty store, when every enabled system
\* lists m with the same stocks v and the first batch is not read-only, then
\* once the batch has aggregated m the inventory row of m has stocks v,
\* there is no CacheDelta row, no SyncLog row and no upload for m, and every
\* system the batch has gone through for m has a cache row with stocks v.
C19_ColdStart ==
    \A m \in Models :
        SameEverywhere(m) /\ ~read_only =>
            /\ m \in DOMAIN inventory
            /\ inventory[m].stocks = obs[m].current[default_client]
            /\ NoTraceOf(m)
            /\ \A a \in Systems :
                  /\ wrote[<<a, m>>] \in {"none", "same", "killed"}
                  /\ wrote[<<a, m>>] = "same" =>
                        /\ <<a, m>> \in DOMAIN cache
                        /\ cache[<<a, m>>].stocks = obs[m].current[default_client]
                  /\ wrote[<<a, m>>] # "same" => <<a, m>> \notin DOMAIN cache

\* C19 as stated: after a first batch that ran to its end, whatever its
\* mode, the inventory row and every cache row of m hold v.
C19_Original ==
    \A m \in Models :
        /\ pc = "idle"
        /\ sync_batch = 1
        /\ todo = {}
        /\ \A k \in Pairs : wrote[k] \notin {"killed", "PlatformNotBehavingError"}
        /\ \A a \in Systems : /\ Len(products[a][m]) = 1
                               /\ products[a][m] = products[default_client][m]
        => /\ m \in DOMAIN inventory
           /\ inventory[m].stocks = products[default_client][m][1]
           /\ \A a \in Systems : /\ <<a, m>> \in DOMAIN cache
                                  /\ cache[<<a, m>>].stocks = inventory[m].stocks

\* The first batch has ended; a traded SKU was listed with the same stocks
\* everywhere and has its inventory row and its cache rows.
C19_Witness ==
    \E m \in Traded :
        /\ pc = "idle"
        /\ ~read_only
        /\ SameEverywhere(m)
        /\ m \in DOMAIN inventory
        /\ \A a \in Systems : wrote[<<a, m>>] = "same" /\ <<a, m>> \in DOMAIN cache

\* Rows of sync_logs of this batch for system a, model m.
SyncLogsOf(a, m) ==
    {i \in DOMAIN sync_logs : /\ sync_logs[i].system = a
                              /\ sync_logs[i].model = m
                              /\ sync_logs[i].sync_batch_id = sync_batch_id}

\* When m was aggregated the inventory row and every cache row of m held the
\* same stocks, no row was flagged, and every system reported those stocks
\* but a, which reported less.
SaleAfterAgreement(m, a) ==
    /\ SingleSale(m, a)
    /\ obs[m].not_behaving = {}
    /\ \A b \in Systems : obs[m].cached[b] = obs[m].prev

\* The audit rows and cache rows the claim describes, for the systems the
\* batch has gone through with the given results.
SaleAudit(m, a, done) ==
    /\ \A b \in Systems \ {a} : DeltaRowsOf(b, m) = {}
    /\ Cardinality(DeltaRowsOf(a, m)) = 1
    /\ \A i \in DeltaRowsOf(a, m) :
          /\ cache_delta[i].cached_stocks = obs[m].cached[a]
          /\ cache_delta[i].current_stocks = obs[m].current[a]
          /\ cache_delta[i].stocks_delta = obs[m].current[a] - obs[m].cached[a]
    /\ SyncLogsOf(a, m) = {}
    /\ \A b \in Systems \ {a} :
          wrote[<<b, m>>] \in done =>
              /\ Cardinality(SyncLogsOf(b, m)) = 1
              /\ \A i \in SyncLogsOf(b, m) :
                    /\ sync_logs[i].previous_stocks = obs[m].current[b]
                    /\ sync_logs[i].computed_stocks = SaleTarget(m, a)
    /\ \A b \in Systems :
          wrote[<<b, m>>] \in done =>
              <<b, m>> \in DOMAIN cache /\ cache[<<b, m>>].stocks = SaleTarget(m, a)

\* C20 (as amended): when the inventory row and every cache row of m held
\* the same stocks c, no pair of m was flagged not_behaving, every
\* marketplace reported c and then exactly one marketplace a sold s units,
\* the next batch, when it is not read-only, appends exactly one CacheDelta
\* row (a, m, c, c - s, -s), appends exactly one SyncLog row (previous c,
\* computed c - s) for each other marketplace whose upload returned
\* error_code 0 and none for a, and leaves at c - s the cache row of a and
\* of each of those marketplaces.
C20_SaleAudit ==
    \A m \in Models, a \in Systems :
        SaleAfterAgreement(m, a) /\ ~read_only =>
            /\ wrote[<<a, m>>] \in {"none", "same", "killed"}
            /\ SaleAudit(m, a, {"ok", "same"})
            /\ \A b \in Systems \ {a} : wrote[<<b, m>>] # "same"

\* C20 as stated: whatever stocks the inventory row held, once the batch has
\* gone through every marketplace for m without a failure.
C20_Original ==
    \A m \in Models, a \in Systems :
        /\ SingleSale(m, a)
        /\ ~read_only
        /\ \A b \in Systems : wrote[<<b, m>>] \in {"ok", "same"}
        => SaleAudit(m, a, {"ok", "same"}) /\ \A b \in Systems \ {a} : wrote[<<b, m>>] = "ok"

\* A batch has ended that found a sale at one marketplace after agreement
\* and uploaded the new stocks to the other.
C20_Witness ==
    \E m \in Models, a \in Systems :
        /\ SaleAfterAgreement(m, a)
        /\ ~read_only
        /\ pc = "idle"
        /\ wrote[<<a, m>>] = "same"
        /\ \A b \in Systems \ {a} : wrote[<<b, m>>] = "ok"

\* The command ends in this step because the Refresh of adapter a raised.
RefreshFails(a) ==
    /\ pc = "idle"
    /\ faults' > faults
    /\ raised'.err = "CommunicationError"
    /\ raised'.at = a

\* C21 as stated: when the Refresh of one enabled adapter raises
\* CommunicationError, the batch is still started and visits the models the
\* other adapters list.
C21_Original ==
    [][\A a \in Systems :
          RefreshFails(a) =>
              /\ pc' = "models"
              /\ sync_batch' = sync_batch + 1
              /\ todo' = {m \in Models : \E b \in Systems \ {a} : Len(remote[b][m]) > 0}]_vars

\* The UpdateProductStocks calls of this batch for system a, model m.
CallsOf(a, m) ==
    {i \in DOMAIN calls : /\ calls[i].sync_batch_id = sync_batch_id
                           /\ calls[i].system = a
                           /\ calls[i].model = m}

\* C22: within one batch each (model, system) pair is the subject of at most
\* one call of UpdateProductStocks and of at most one cache update after a
\* successful upload (one sync_logs row with error_code 0).
C22_OncePerPair ==
    \A k \in Pairs :
        /\ Cardinality(CallsOf(k[1], k[2])) <= 1
        /\ Cardinality({i \in SyncLogsOf(k[1], k[2]) :
                            sync_logs[i].upload_error_code = ERROR_SUCCESS}) <= 1
        /\ Cardinality({i \in DOMAIN calls : /\ calls[i].system = k[1]
                                              /\ calls[i].model = k[2]}) <= sync_batch

\* A batch has visited every model; a model that both systems list was
\* uploaded to one of them once, and that system was uploaded to in an
\* earlier batch too.
C22_Witness ==
    /\ pc = "idle"
    /\ todo = {}
    /\ \E k \in Pairs :
          /\ \A a \in Systems : Len(products[a][k[2]]) > 0
          /\ Cardinality(CallsOf(k[1], k[2])) = 1
          /\ \E i \in DOMAIN calls : /\ calls[i].system = k[1]
                                       /\ calls[i].model = k[2]
                                       /\ calls[i].sync_batch_id < sync_batch_id

\* Table t after a step holds the rows it held, in place, and maybe more.
Extends(t2, t1) == Len(t2) >= Len(t1) /\ SubSeq(t2, 1, Len(t1)) = t1

\* C23: no step of any command removes or changes a row of sync_logs or of
\* inventory_system_cache_delta; the numbers of rows never decrease.
C23_AppendOnly ==
    [][Extends(sync_logs', sync_logs) /\ Extends(cache_delta', cache_delta)]_vars

\* Two batches have logged an upload of the same model to the same system,
\* and a delta was recorded.
C23_Witness ==
    /\ \E i \in DOMAIN sync_logs, j \in DOMAIN sync_logs :
          /\ i < j
          /\ sync_logs[i].sync_batch_id < sync_logs[j].sync_batch_id
          /\ sync_logs[i].system = sync_logs[j].system
          /\ sync_logs[i].model = sync_logs[j].model
    /\ Len(cache_delta) > 0

\* The models system a lists right now.
Listed(a) == {m \in Models : Len(remote[a][m]) > 0}

\* This step is the start of a command that got past DoCleanupProcedure.
CleanupRuns ==
    /\ pc = "idle"
    /\ \/ pc' = "models"
       \/ faults' > faults /\ raised'.at # "OPENCART"

\* The cleanup of this step keeps the inventory rows of the models listed by
\* system a, as they are, deletes the others and changes no other table.
Prunes(a) ==
    /\ DOMAIN inventory' = DOMAIN inventory \cap Listed(a)
    /\ \A m \in DOMAIN inventory' : inventory'[m] = inventory[m]
    /\ cache' = cache
    /\ cache_delta' = cache_delta
    /\ sync_logs' = sync_logs

\* C24 (as amended): after cleanup the inventory holds exactly those previous
\* rows whose model Opencart lists, whatever system is configured as the
\* default; the rows kept have their stocks, and no cache, delta or log row
\* is changed.
C24_PrunesByOpencart == [][CleanupRuns => Prunes("OPENCART")]_vars

\* C24 as stated: the rows kept are those of the models the default
\* marketplace lists.
C24_Original == [][CleanupRuns => Prunes(default_client)]_vars

\* A command has just started; its cleanup deleted the inventory row of a
\* model Opencart no longer lists and that the batch before had stored, and
\* kept another row.
C24_Witness ==
    /\ pc = "models"
    /\ DOMAIN obs = {}
    /\ DOMAIN inventory # {}
    /\ \E m \in Models \ DOMAIN inventory :
          /\ m \notin Listed("OPENCART")
          /\ \E a \in Systems : last.wrote[<<a, m>>] # "none"

RunReadOnly == IF pc' = "idle" THEN raised'.read_only ELSE read_only'

\* C26 (as amended): the tokens of Lazada are refreshed at the start of a
\* sync run that is not read-only, before the adapters load their product
\* lists and before Sync() is entered: a step that stores tokens starts from
\* no running batch, a batch that is not read-only starts with new tokens,
\* so does a run whose Lazada product list then fails to load, and no token
\* is stored while or after Sync() runs.
C26_RefreshFirst ==
    [][/\ oauth2' # oauth2 => pc = "idle" /\ ~RunReadOnly
       /\ pc = "idle" /\ pc' = "models" /\ ~read_only' => oauth2' # oauth2
       /\ RefreshFails("LAZADA") /\ ~RunReadOnly => oauth2' # oauth2]_vars

\* C26 as stated: the token refresh comes after Sync() has completed.
C26_Original == [][oauth2' # oauth2 => pc # "idle" /\ pc' = "idle"]_vars

\* A batch that is not read-only has just been entered with tokens that are
\* not those the store held at first; nothing has been reconciled yet.
C26_Witness ==
    /\ pc = "models"
    /\ ~read_only
    /\ DOMAIN obs = {}
    /\ calls = <<>>
    /\ tokens.saved["LAZADA"] # <<1, 1, 1>>
    /\ GetOauth2Tokens(oauth2, "LAZADA").access_token # 1

\* The rows the oauth2 table holds for a system.
Oauth2RowsOf(system) == {i \in DOMAIN oauth2 : oauth2[i].system = system}

\* C27 as stated: the table holds at most one row per system, Get returns
\* the values of the last Save of the system whatever was saved before, and
\* a Get for a system that was never saved fails with NotFoundError.
C27_Original ==
    \A system \in Oauth2Systems :
        LET g == GetOauth2Tokens(oauth2, system)
        IN /\ Cardinality(Oauth2RowsOf(system)) <= 1
           /\ tokens.saved[system] # <<>> =>
                  /\ g.err = ""
                  /\ <<g.access_token, g.refresh_token, g.expires_on>>
                        = tokens.saved[system]
           /\ tokens.got.system = system /\ tokens.saved[system] = <<>> =>
                  tokens.got.err = "NotFoundError"

\* C28 as stated: whenever the snapshot of an adapter holds more than one
\* product with model m, GetProduct(m) of that adapter fails with
\* MultipleResultsError, and nothing is uploaded for m to that marketplace
\* in the batch.
C28_Original ==
    \A a \in Systems, m \in Models :
        pc # "idle" /\ Len(products[a][m]) > 1 =>
            /\ GetProduct(a, m).err = "MultipleResultsError"
            /\ CallsOf(a, m) = {}

\* C29 as stated: when Lazada, with confirmation, reads back a stock that is
\* not the stock it uploaded, UpdateProductStocks raises
\* PlatformNotBehavingError and the engine sets not_behaving on the cache
\* row of the pair.
C29_Original ==
    [][\A a \in WithConfirm :
          /\ pc = "update"
          /\ external_systems[sysidx] = a
          /\ Len(calls') > Len(calls)
          /\ calls'[Len(calls')].response = "error_code"
          => /\ calls'[Len(calls')].outcome = "PlatformNotBehavingError"
             /\ cache'[<<a, model>>].not_behaving]_vars

\* C30: UpdateProductStocks and the products handed out by GetProduct and
\* ListProducts leave the snapshot of every adapter as the last Refresh made
\* it: while a batch runs the snapshots do not change, so GetProduct(m)
\* returns the same stocks throughout the batch.
C30_SnapshotKept == [][pc # "idle" => products' = products]_vars

\* In the running batch a marketplace took an upload, and the snapshot of
\* its adapter still holds the stock loaded before.
C30_Witness ==
    /\ pc # "idle"
    /\ \E i \in DOMAIN calls :
          LET a == calls[i].system
              m == calls[i].model
          IN /\ calls[i].sync_batch_id = sync_batch_id
             /\ calls[i].outcome = "ok"
             /\ remote[a][m][1] = calls[i].stocks
             /\ GetProduct(a, m).stocks # calls[i].stocks

\* This step is _UpdateExternalSystemItem for pair k finding the stocks of the
\* system equal to those of the item: the cache row is upserted and nothing
\* else is done.
UpsertOnly(k) == pc = "update" /\ wrote[k] = "none" /\ wrote'[k] = "same"

\* C31: _UpsertInventorySystemCacheItem on an existing row of (system, model)
\* changes stocks and last_sync_batch_id only and leaves not_behaving as it
\* was; on an absent row it creates the row with the values given and
\* not_behaving false; the rows of the other pairs stay as they are.
C31_UpsertFrame ==
    [][\A k \in Pairs :
          UpsertOnly(k) =>
              /\ DOMAIN cache' = DOMAIN cache \cup {k}
              /\ \A j \in DOMAIN cache \ {k} : cache'[j] = cache[j]
              /\ cache'[k].stocks = GetProduct(k[1], k[2]).stocks
              /\ cache'[k].last_sync_batch_id = sync_batch_id
              /\ cache'[k].not_behaving =
                    (IF k \in DOMAIN cache THEN cache[k].not_behaving ELSE FALSE)]_vars

\* The row of a flagged pair, written by an earlier batch, was upserted in
\* this batch with other stocks and is still flagged.
C31_Witness ==
    \E k \in Pairs :
        /\ wrote[k] = "same"
        /\ last.wrote[k] = "PlatformNotBehavingError"
        /\ FlagSet(cache, k)
        /\ cache[k].last_sync_batch_id = sync_batch_id
        /\ k[2] \in DOMAIN obs
        /\ obs[k[2]].cached[k[1]] # cache[k].stocks

\* The observation o has no delta to take from system a: GetProduct failed
\* there or the pair has no cache row.
Tolerated(o, a) == o.current[a] < 0 \/ o.cached[a] < 0

\* The deltas of the systems i..n other than a.
RECURSIVE OthersSum(_, _, _)
OthersSum(o, a, i) ==
    IF i > Len(external_systems) THEN 0
    ELSE (IF external_systems[i] = a THEN 0 ELSE Delta(o, external_systems[i]))
             + OthersSum(o, a, i + 1)

\* C32: when GetProduct(m) of system a fails or (a, m) has no cache row, a
\* contributes delta 0 and no row of inventory_system_cache_delta for m, and
\* the deltas of the other systems are recorded and summed all the same.
C32_TolerantDelta ==
    \A m \in DOMAIN obs, a \in Systems :
        Tolerated(obs[m], a) =>
            /\ obs[m].delta[a] = 0
            /\ DeltaRowsOf(a, m) = {}
            /\ \A b \in Systems \ {a} :
                  ~read_only =>
                      Cardinality(DeltaRowsOf(b, m)) = IF Delta(obs[m], b) # 0 THEN 1 ELSE 0
            /\ ~read_only /\ obs[m].prev >= 0 =>
                  /\ m \in DOMAIN inventory
                  /\ inventory[m].stocks = Max(0, obs[m].prev + OthersSum(obs[m], a, 1))

\* GetProduct failed at one system while another reported a change, which
\* went into the inventory.
C32_Witness ==
    \E m \in DOMAIN obs, a \in Systems, b \in Systems :
        /\ ~read_only
        /\ obs[m].current[a] < 0
        /\ obs[m].prev >= 0
        /\ Delta(obs[m], b) # 0
        /\ Cardinality(DeltaRowsOf(b, m)) = 1
        /\ inventory[m].stocks = obs[m].prev + Delta(obs[m], b)

\* UpdateProductStocks returned an error_code other than 0, or raised.
FailedWrite == {"error_code", "CommunicationError", "PlatformNotBehavingError"}

\* The upload to pair k failed in the batch before this one, and this batch
\* found the system reporting the stocks it reported then.
RetryDue(k) ==
    /\ last.wrote[k] \in FailedWrite
    /\ k[2] \in DOMAIN obs
    /\ k[2] \in DOMAIN last.obs
    /\ obs[k[2]].current[k[1]] = last.obs[k[2]].current[k[1]]

\* UpdateProductStocks was called in this batch for pair k with the stocks of
\* the inventory row.
Attempted(k) ==
    \E i \in CallsOf(k[1], k[2]) :
        /\ calls[i].sync_batch_id = sync_batch_id
        /\ calls[i].stocks = inventory[k[2]].stocks

\* C33: after an upload to (a, m) that returned an error_code other than 0
\* or raised, the cache row of (a, m) holds the stocks a reported just before
\* the upload; in the next batch, if a reports the same stocks, delta(a, m)
\* is 0, and when that batch gets to (a, m) it calls UpdateProductStocks with
\* the stocks of the inventory row again, unless those are now the stocks a
\* reports.
C33_BaselineKept ==
    \A k \in Pairs :
        /\ wrote[k] \in FailedWrite =>
              /\ k \in DOMAIN cache
              /\ cache[k].stocks = obs[k[2]].current[k[1]]
        /\ RetryDue(k) =>
              /\ obs[k[2]].delta[k[1]] = 0
              /\ wrote[k] \notin {"none", "killed"}
                    /\ inventory[k[2]].stocks # obs[k[2]].current[k[1]] => Attempted(k)
              /\ wrote[k] \notin {"none", "killed"}
                    /\ inventory[k[2]].stocks = obs[k[2]].current[k[1]] => wrote[k] = "same"

\* The claim as stated: whenever the batch after a failed upload gets to the
\* pair and the system reports the same stocks, the upload is attempted again.
C33_Original ==
    \A k \in Pairs :
        RetryDue(k) /\ ~read_only /\ wrote[k] \notin {"none", "killed"} =>
            obs[k[2]].delta[k[1]] = 0 /\ Attempted(k)

\* An upload failed, the system kept its stocks, and the next batch made the
\* upload again, with success.
C33_Witness ==
    \E k \in Pairs :
        /\ RetryDue(k)
        /\ wrote[k] = "ok"
        /\ Attempted(k)
        /\ cache[k].stocks = inventory[k[2]].stocks

\* Model m was visited in this batch with no inventory row and no product of
\* that model at the default client.
Skipped(m) ==
    /\ m \in DOMAIN obs
    /\ obs[m].prev < 0
    /\ Len(products[default_client][m]) = 0

\* Sync() visits m, which has no inventory row and is not found at the
\* default client.
Skips(m) ==
    /\ pc = "models"
    /\ m \in todo
    /\ todo' = todo \ {m}
    /\ m \notin DOMAIN inventory
    /\ GetProduct(default_client, m).err = "NotFoundError"

\* C34: when the inventory has no row for m and GetProduct(m) of the default
\* client raises NotFoundError, the batch skips m: no inventory row is made,
\* no cache row is changed, no marketplace is written to, and Sync() goes on
\* with the next model.
C34_Skipped ==
    /\ [](\A m \in Models :
             Skipped(m) =>
                 /\ m \notin DOMAIN inventory
                 /\ model # m
                 /\ \A a \in Systems :
                       /\ wrote[<<a, m>>] = "none"
                       /\ <<a, m>> \in DOMAIN cache =>
                              cache[<<a, m>>].last_sync_batch_id # sync_batch_id
                       /\ \A i \in CallsOf(a, m) : calls[i].sync_batch_id # sync_batch_id)
    /\ [][\A m \in Models :
             Skips(m) =>
                 /\ pc' = "models"
                 /\ raised' = raised
                 /\ UNCHANGED <<inventory, cache, sync_logs, remote, calls>>]_vars

\* A model listed elsewhere and not at the default client was skipped, and
\* the batch went on to store another model.
C34_Witness ==
    \E m \in Models, n \in DOMAIN inventory :
        /\ Skipped(m)
        /\ \E a \in Systems : Len(products[a][m]) > 0
        /\ n # m
        /\ obs[m].prev < 0
        /\ n \in DOMAIN obs
        /\ inventory[n].last_sync_batch_id = sync_batch_id
        /\ todo = {}
        /\ raised = NoError

\* UpdateProductStocks was called in this batch for system a and model m.
CalledNow(a, m) ==
    \E i \in CallsOf(a, m) : calls[i].sync_batch_id = sync_batch_id

\* C35: _UpdateExternalSystemItem calls UpdateProductStocks for (a, m) if and
\* only if the stocks it found at a differ from the stocks of the item; a
\* pair it did not get to, or whose GetProduct failed, gets no call; and every
\* row of sync_logs has previous_stocks other than computed_stocks.
C35_WriteIffDiffers ==
    /\ \A k \in Pairs :
          /\ wrote[k] \in Refreshed =>
                (CalledNow(k[1], k[2])
                    <=> obs[k[2]].current[k[1]] # inventory[k[2]].stocks)
          /\ wrote[k] \notin Refreshed \cup {"killed"} /\ pc # "idle" =>
                ~CalledNow(k[1], k[2])
    /\ \A i \in DOMAIN sync_logs :
          sync_logs[i].previous_stocks # sync_logs[i].computed_stocks

\* In one batch a system with the stocks of the item got no call and
\* another got one, which is in sync_logs.
C35_Witness ==
    \E j \in Pairs, k \in Pairs :
        /\ j[2] = k[2]
        /\ wrote[j] = "same"
        /\ ~CalledNow(j[1], j[2])
        /\ wrote[k] = "ok"
        /\ CalledNow(k[1], k[2])
        /\ \E i \in DOMAIN sync_logs :
              /\ sync_logs[i].system = k[1]
              /\ sync_logs[i].model = k[2]
              /\ sync_logs[i].sync_batch_id = sync_batch_id
              /\ sync_logs[i].previous_stocks = obs[k[2]].current[k[1]]
              /\ sync_logs[i].computed_stocks = inventory[k[2]].stocks

\* The rows this step appends to inventory_system_cache_delta.
AppendedDeltaRows == (Len(cache_delta) + 1)..Len(cache_delta')

\* C36: every row of inventory_system_cache_delta has stocks_delta other
\* than 0 and cached_stocks + stocks_delta = current_stocks, and its
\* cached_stocks are the stocks the cache row of its system and model held
\* at the start of the batch that appended it: the stocks of the cache row
\* when the row is appended, the cache rows of a model not yet visited being
\* those the batch started with.
C36_DeltaRows ==
    /\ [](\A i \in DOMAIN cache_delta :
             /\ cache_delta[i].stocks_delta # 0
             /\ cache_delta[i].cached_stocks + cache_delta[i].stocks_delta
                    = cache_delta[i].current_stocks)
    /\ [](\A k \in Pairs :
             pc # "idle" /\ k[2] \in todo /\ k \in DOMAIN cache =>
                 cache[k].last_sync_batch_id # sync_batch_id)
    /\ [][\A i \in AppendedDeltaRows :
             LET row == cache_delta'[i]
                 k == <<row.system, row.model>>
             IN /\ row.model \in todo
                /\ k \in DOMAIN cache
                /\ row.cached_stocks = cache[k].stocks
                /\ row.last_sync_batch_id = sync_batch_id]_vars

\* A row for a sale and a row for a restock, each with the stocks the cache
\* held when the batch visited the model.
C36_Witness ==
    \E i \in DOMAIN cache_delta, j \in DOMAIN cache_delta :
        /\ cache_delta[i].stocks_delta < 0
        /\ cache_delta[j].stocks_delta > 0
        /\ cache_delta[j].last_sync_batch_id = sync_batch_id
        /\ cache_delta[j].model \in DOMAIN obs
        /\ cache_delta[j].cached_stocks
               = obs[cache_delta[j].model].cached[cache_delta[j].system]

\* The batch ids the rows of the store carry.
BatchIdsStored ==
    {inventory[m].last_sync_batch_id : m \in DOMAIN inventory}
        \cup {cache[k].last_sync_batch_id : k \in DOMAIN cache}
        \cup {cache_delta[i].last_sync_batch_id : i \in DOMAIN cache_delta}
        \cup {sync_logs[i].sync_batch_id : i \in DOMAIN sync_logs}

\* C37: Sync() obtains a batch id greater than every batch id before it; the
\* rows of inventory, inventory_system_cache, inventory_system_cache_delta
\* and sync_logs it writes carry that id; and so the rows of
\* inventory_system_cache_delta of one system and model have batch ids that
\* grow strictly in the order the rows were appended.
C37_BatchIds ==
    /\ [][sync_batch' # sync_batch =>
             /\ sync_batch_id' > sync_batch_id
             /\ \A id \in BatchIdsStored : sync_batch_id' > id]_vars
    /\ [][pc # "idle" =>
             /\ \A m \in DOMAIN inventory' :
                   m \notin DOMAIN inventory \/ inventory'[m] # inventory[m] =>
                       inventory'[m].last_sync_batch_id = sync_batch_id
             /\ \A k \in DOMAIN cache' :
                   k \notin DOMAIN cache \/ cache'[k] # cache[k] =>
                       cache'[k].last_sync_batch_id = sync_batch_id
             /\ \A i \in AppendedDeltaRows :
                   cache_delta'[i].last_sync_batch_id = sync_batch_id
             /\ \A i \in (Len(sync_logs) + 1)..Len(sync_logs') :
                   sync_logs'[i].sync_batch_id = sync_batch_id]_vars
    /\ [](\A i \in DOMAIN cache_delta, j \in DOMAIN cache_delta :
             /\ i < j
             /\ cache_delta[i].system = cache_delta[j].system
             /\ cache_delta[i].model = cache_delta[j].model
             => cache_delta[i].last_sync_batch_id < cache_delta[j].last_sync_batch_id)

\* The third batch appended a second row for a pair, and wrote a row to
\* each of the other tables.
C37_Witness ==
    \E i \in DOMAIN cache_delta, j \in DOMAIN cache_delta :
        /\ i < j
        /\ cache_delta[i].system = cache_delta[j].system
        /\ cache_delta[i].model = cache_delta[j].model
        /\ cache_delta[j].last_sync_batch_id = sync_batch_id
        /\ sync_batch_id = 3
        /\ \E m \in DOMAIN inventory : inventory[m].last_sync_batch_id = sync_batch_id
        /\ \E k \in DOMAIN cache : cache[k].last_sync_batch_id = sync_batch_id
        /\ \E n \in DOMAIN sync_logs : sync_logs[n].sync_batch_id = sync_batch_id

\* This step is a command run while system a lists no product.
CommandWithNoListing(a) ==
    /\ pc = "idle"
    /\ remote' = remote
    /\ Listed(a) = {}

\* The command of this step ended in DoCleanupProcedure with a
\* CommunicationError, and the store is as it was.
CleanupFails ==
    /\ pc' = "idle"
    /\ raised'.err = "CommunicationError"
    /\ raised'.at \in {"ListDeletedSystemModels", "OPENCART"}
    /\ UNCHANGED store
    /\ UNCHANGED <<sync_batch, oauth2>>

\* C38: when Opencart lists no product, DoCleanupProcedure fails with
\* CommunicationError and deletes no inventory row, whatever system is
\* Common.DefaultSystem; the command ends there.
C38_EmptyListingFails ==
    [][CommandWithNoListing("OPENCART") => CleanupFails]_vars

\* C38 as stated, with the default marketplace in the place of Opencart.
C38_Original ==
    [][CommandWithNoListing(default_client) =>
          /\ raised'.err = "CommunicationError"
          /\ inventory' = inventory]_vars

\* The cleanup failed on an empty listing of Opencart and the inventory row
\* of the model taken down is still there.
C38_Witness ==
    /\ raised.err = "CommunicationError"
    /\ raised.at = "ListDeletedSystemModels"
    /\ Listed("OPENCART") = {}
    /\ \E m \in DOMAIN inventory : m \notin Listed("OPENCART")

\* C39: a product listed without a model (empty or falsy) is ignored: Sync()
\* never visits it, and no row of inventory, inventory_system_cache,
\* inventory_system_cache_delta or sync_logs and no call of
\* UpdateProductStocks bears its model.
C39_FalsyIgnored ==
    \A f \in Skus \ Models :
        /\ f \notin todo
        /\ f \notin DOMAIN obs
        /\ f \notin DOMAIN inventory
        /\ \A k \in DOMAIN cache : k[2] # f
        /\ \A i \in DOMAIN cache_delta : cache_delta[i].model # f
        /\ \A i \in DOMAIN sync_logs : sync_logs[i].model # f
        /\ \A i \in DOMAIN calls : calls[i].model # f
        /\ \A a \in Systems : remote[a][f] = InitialListing(a, f)

\* A batch that wrote to the store and to a marketplace has returned, every
\* adapter having had a product without a model in its list.
C39_Witness ==
    /\ pc = "idle"
    /\ raised = NoError
    /\ \A a \in Systems, f \in Skus \ Models : Len(products[a][f]) > 0
    /\ inventory # <<>>
    /\ \E i \in DOMAIN calls : calls[i].sync_batch_id = sync_batch_id
    /\ Len(cache_delta) > 0

\* This batch visited m, found no inventory row and made one from the
\* product of the default client.
CreatedFromDefault(m) ==
    /\ m \in DOMAIN obs
    /\ ~read_only
    /\ obs[m].prev < 0
    /\ m \in DOMAIN inventory
    /\ inventory[m].last_sync_batch_id = sync_batch_id

\* C40 as stated: an inventory row made in a batch from the product of the
\* default client, for a model that had no row (never made, or deleted by
\* the cleanup), holds the stocks the default client reports: the cache rows
\* of the model left from before the deletion add no delta.
C40_Original ==
    \A m \in Models :
        CreatedFromDefault(m) => inventory[m].stocks = obs[m].current[default_client]

====
